---- MODULE Spec2Model ----
(***************************************************************************)
(* torchpack: the training loop of Trainer.train (train/trainer.py) and    *)
(* the Monitors group of callbacks/monitor.py.                             *)
(*                                                                         *)
(* A state is the Trainer object between two calls: pc names the hook      *)
(* that is executing (it has been entered and logged, it has not returned  *)
(* yet).  An action is the return of that hook with an outcome, followed   *)
(* by the trainer code up to the entry of the next hook, or one call of a  *)
(* callback into the trainer's state_dict / load_state_dict while the hook *)
(* is executing.                                                           *)
(***************************************************************************)
EXTENDS Integers, Sequences, FiniteSets, TLC

\* ------------------------------------------------------------- bounds
MaxSteps == 2       \* longest dataflow (batches per epoch)
MaxEpochs == 2      \* largest num_epochs, and largest epoch of a snapshot
MaxInterval == 2    \* largest eval_interval
MaxApiCalls == 1    \* state_dict / load_state_dict calls by callbacks per run
NumCallbacks == 2   \* registered callbacks; callback 1 is the Monitors group
NumMonitors == 2    \* monitors held by the Monitors group
MaxSinkCalls == 2   \* add_scalar / get_latest / get_history calls by callbacks per run
MaxDim == 5         \* largest extent of an image array along one axis
MaxRank == 5        \* largest number of axes of an image array

\* an attribute that has not been assigned yet (reading it is AttributeError)
Unset == -1
\* eval_interval=None
None == -1

Outcomes == {"ok", "StopTraining", "Error"}

StepHooks == {"before_step", "run_step", "after_step", "trigger_step"}
EpochHooks == {"before_epoch", "after_epoch", "trigger_epoch"}
\* the hooks of the try body, in which a callback holds the trainer
BodyHooks == {"set_trainer", "before_train"} \cup EpochHooks \cup StepHooks
\* the hooks delivered to the callback group (run_step is the trainer's own)
CallbackHooks == BodyHooks \ {"run_step"}

VARIABLES
    pc,               \* "idle", the hook being executed, or "done"
    dataflow,         \* number of batches the dataflow yields (its len)
    steps_per_epoch,  \* self.steps_per_epoch
    num_epochs,       \* self.num_epochs
    eval_interval,    \* the eval_interval argument of train
    has_callbacks,    \* self.callbacks has been assigned
    epoch_num,        \* self.epoch_num
    local_step,       \* self.local_step
    global_step,      \* self.global_step
    iter_pos,         \* batches taken from the iterator of the running for loop
    epoch_iter,       \* iterations of the while loop begun in this run
    raised,           \* what the try body raised, and in which hook (index in log)
    pending,          \* exception in flight when the finally clause runs
    result,           \* how train ended: "none", "returned", or what it raised
    log,              \* hooks entered so far, oldest first
    cb_state,         \* the callback group's own sub-state (steps it has counted)
    cb_loaded,        \* last sub-state handed to callbacks.load_state_dict
    api,              \* the last state_dict / load_state_dict call of a callback
    api_calls,        \* number of such calls so far
    restored,         \* the snapshot restored before the first step, if any
    callbacks_calls,  \* calls of self.callbacks.after_train()
    callback_after,   \* after_train calls received by each registered callback
    monitor_after,    \* after_train calls received by each monitor of the group
    own_after,        \* calls of the trainer's own _after_train
    after_raised      \* what the after_train handlers that were called raised

\* the sinks: the Monitors group (callback 1) holds, in this order, a TFEventWriter,
\* a JSONWriter and a ScalarPrinter; dicts are functions whose DOMAIN is the key set
VARIABLES
    scalars,          \* Monitors.scalars: name -> list of <<global_step, val>>
    received,         \* per sink, the (name, val) its add_scalar has been handed
    stats,            \* JSONWriter._stats: the in-memory history
    stat_now,         \* JSONWriter._stat_now: the pending buffer
    stats_json,       \* content of stats.json in the logger dir, or Absent
    backups,          \* contents of the stats.json.<time> backup files
    dic,              \* ScalarPrinter._dic: the pending buffer
    enable_step,      \* ScalarPrinter._enable_step
    enable_epoch,     \* ScalarPrinter._enable_epoch
    events,           \* summaries the TFEventWriter has written: <<name, val, step>>
    sink_log,         \* what the sinks did, oldest first (one record per event)
    sink_calls,       \* add_scalar / get_latest / get_history calls so far
    image_in,         \* the val handed to Monitor.add_image
    image_out         \* what that call did: whether _add_image ran, and on what

sinkvars == <<scalars, received, stats, stat_now, stats_json, backups, dic,
              enable_step, enable_epoch, events, sink_log, sink_calls,
              image_in, image_out>>
imagevars == <<image_in, image_out>>

trainvars == <<pc, dataflow, steps_per_epoch, num_epochs, eval_interval, has_callbacks,
               epoch_num, local_step, global_step, iter_pos, epoch_iter, raised, pending,
               result, log, cb_state, cb_loaded, api, api_calls, restored,
               callbacks_calls, callback_after, monitor_after, own_after, after_raised>>

vars == <<scalars, received, stats, stat_now, stats_json, backups, dic,
          enable_step, enable_epoch, events, sink_log, sink_calls,
          image_in, image_out, pc, dataflow, steps_per_epoch, num_epochs, eval_interval, has_callbacks,
          epoch_num, local_step, global_step, iter_pos, epoch_iter, raised, pending,
          result, log, cb_state, cb_loaded, api, api_calls, restored,
          callbacks_calls, callback_after, monitor_after, own_after, after_raised>>

counters == <<epoch_num, local_step, global_step>>
config == <<dataflow, steps_per_epoch, num_epochs, eval_interval, has_callbacks>>
finals == <<result, callbacks_calls, callback_after, monitor_after, own_after,
           after_raised>>
apivars == <<cb_loaded, api, api_calls, restored>>

EvalIntervals == {None} \cup (0..MaxInterval)

\* the monitors handed to Monitors(monitors), in list order
Sinks == <<"TFEventWriter", "JSONWriter", "ScalarPrinter">>
SinkNames == {Sinks[i] : i \in 1..Len(Sinks)}
\* metric names and values that callbacks report
Names == {"loss", "acc"}
Values == {1, 2}

\* an image value: whether it is a numpy array, and its shape
NoImage == [ndarray |-> FALSE, shape |-> <<>>]
NotCalled == [done |-> FALSE, called |-> FALSE, shape |-> <<>>]

\* {} and defaultdict(list) as constructed; d[k] = v on a dict
EmptyDict == [k \in {} |-> 0]
Put(d, k, v) == [x \in DOMAIN d \cup {k} |-> IF x = k THEN v ELSE d[x]]
\* os.path.exists(fname) is false
NoFile == [exists |-> FALSE, content |-> <<>>]
File(content) == [exists |-> TRUE, content |-> content]

NoApi == [op |-> "none", at |-> "idle", begun |-> FALSE, outcome |-> "ok",
          before |-> <<Unset, Unset, Unset>>, after |-> <<Unset, Unset, Unset>>,
          produced |-> 0]
NoSnapshot == [at |-> "none", epoch_num |-> Unset, local_step |-> Unset,
               global_step |-> Unset]
NotRaised == [what |-> "none", at |-> 0, epoch_num |-> Unset, global_step |-> Unset]

\* the trainer and the sinks as constructed
InitRun ==
    /\ pc = "idle"
    /\ dataflow = 0
    /\ steps_per_epoch = Unset
    /\ num_epochs = Unset
    /\ eval_interval = None
    /\ has_callbacks = FALSE
    /\ epoch_num = Unset
    /\ local_step = Unset
    /\ global_step = Unset
    /\ iter_pos = 0
    /\ epoch_iter = 0
    /\ raised = NotRaised
    /\ pending = "none"
    /\ result = "none"
    /\ log = <<>>
    /\ cb_state = 0
    /\ cb_loaded = Unset
    /\ api = NoApi
    /\ api_calls = 0
    /\ restored = NoSnapshot
    /\ callbacks_calls = 0
    /\ callback_after = [c \in 1..NumCallbacks |-> 0]
    /\ monitor_after = [m \in 1..NumMonitors |-> 0]
    /\ own_after = 0
    /\ after_raised = {}
    /\ scalars = EmptyDict
    /\ received = [m \in SinkNames |-> <<>>]
    /\ stats = <<>>
    /\ stat_now = EmptyDict
    /\ stats_json = NoFile
    /\ backups = {}
    /\ dic = EmptyDict
    /\ enable_step = FALSE
    /\ enable_epoch = TRUE
    /\ events = <<>>
    /\ sink_log = <<>>
    /\ sink_calls = 0

\* no image has been reported
Init == InitRun /\ image_in = NoImage /\ image_out = NotCalled

\* ------------------------------------------------------ control transfer

\* a hook is entered: it is logged with the loop position (ep: iteration of the
\* while loop, it: iteration of the for loop) and the counters a callback reads
Enter(h) ==
    /\ pc' = h
    /\ log' = Append(log, [hook |-> h, ep |-> epoch_iter', it |-> iter_pos',
                           epoch_num |-> epoch_num', local_step |-> local_step',
                           global_step |-> global_step'])

\* (mutant) the except clause misses StopTraining
ExceptClauseMissesStop(o) == o

\* except StopTraining (lines 136-137): the signal is caught and logged,
\* anything else stays in flight
ExceptClause(o) == IF o = "StopTraining" THEN "none" ELSE o

\* (mutant) after_train is the last statement of the try body instead of a
\* finally clause: a failure leaves train without it
RaiseSkipsFinally(o) ==
    /\ raised' = [what |-> o, at |-> Len(log), epoch_num |-> epoch_num,
                  global_step |-> global_step]
    /\ pending' = ExceptClause(o)
    /\ UNCHANGED <<counters, iter_pos, epoch_iter, cb_state>>
    /\ IF o = "Error" THEN pc' = "done" /\ log' = log ELSE Enter("after_train")

\* (mutant) the try/except sits inside the while loop: StopTraining ends the
\* epoch only, and the next epoch starts
RaiseCaughtInLoop(o) ==
    /\ raised' = [what |-> o, at |-> Len(log), epoch_num |-> epoch_num,
                  global_step |-> global_step]
    /\ pending' = ExceptClause(o)
    /\ UNCHANGED <<global_step, cb_state>>
    /\ IF o = "StopTraining" /\ epoch_num < num_epochs
       THEN /\ epoch_num' = epoch_num + 1
            /\ local_step' = 0
            /\ epoch_iter' = epoch_iter + 1
            /\ iter_pos' = 0
            /\ Enter("before_epoch")
       ELSE /\ UNCHANGED <<epoch_num, local_step, iter_pos, epoch_iter>>
            /\ Enter("after_train")

\* an exception leaves the try body: except clause, then finally (line 139)
Raise(o) ==
    /\ raised' = [what |-> o, at |-> Len(log), epoch_num |-> epoch_num,
                  global_step |-> global_step]
    /\ pending' = ExceptClause(o)
    /\ UNCHANGED <<counters, iter_pos, epoch_iter, cb_state>>
    /\ Enter("after_train")

\* while self.epoch_num < self.num_epochs (lines 92-100), else lines 130-139
WhileLoop ==
    IF epoch_num < num_epochs
    THEN /\ epoch_num' = epoch_num + 1
         /\ local_step' = 0
         /\ epoch_iter' = epoch_iter + 1
         /\ iter_pos' = 0
         /\ UNCHANGED <<global_step, raised, pending>>
         /\ Enter("before_epoch")
    ELSE /\ UNCHANGED <<counters, iter_pos, epoch_iter, raised, pending>>
         /\ Enter("after_train")

\* for feed_dict in self.dataflow (lines 102-106), else line 112
ForLoop ==
    IF iter_pos < dataflow
    THEN /\ iter_pos' = iter_pos + 1
         /\ local_step' = local_step + 1
         /\ global_step' = global_step + 1
         /\ UNCHANGED <<epoch_num, epoch_iter, raised, pending>>
         /\ Enter("before_step")
    ELSE /\ UNCHANGED <<counters, iter_pos, epoch_iter, raised, pending>>
         /\ Enter("after_epoch")

\* (mutant) the operands of % are swapped
GateSwapped(e) == eval_interval = None \/ (e # 0 /\ eval_interval % e = 0)

\* lines 119-123: is trigger_epoch due in epoch e
Gate(e) == eval_interval = None \/ (eval_interval # 0 /\ e % eval_interval = 0)

EvalGate ==
    IF eval_interval # None /\ eval_interval = 0
    THEN Raise("Error")   \* epoch_num % 0: ZeroDivisionError
    ELSE IF Gate(epoch_num)
         THEN /\ UNCHANGED <<counters, iter_pos, epoch_iter, raised, pending>>
              /\ Enter("trigger_epoch")
         ELSE WhileLoop

\* ------------------------------------------------------------ the run

\* train(dataflow, num_epochs, eval_interval, callbacks): lines 69-82
Train(d, n, ei) ==
    /\ pc = "idle"
    /\ dataflow' = d
    /\ steps_per_epoch' = d
    /\ num_epochs' = n
    /\ eval_interval' = ei
    /\ has_callbacks' = TRUE
    /\ UNCHANGED <<counters, iter_pos, epoch_iter, raised, pending, cb_state>>
    /\ Enter("set_trainer")
    /\ UNCHANGED <<finals, apivars, sinkvars>>

\* self.callbacks.set_trainer(self) returns; lines 83-90
SetTrainerReturn(o) ==
    /\ pc = "set_trainer"
    /\ IF o = "ok"
       THEN /\ epoch_num' = 0
            /\ global_step' = 0
            /\ UNCHANGED <<local_step, iter_pos, epoch_iter, raised, pending, cb_state>>
            /\ Enter("before_train")
       ELSE Raise(o)
    /\ UNCHANGED <<config, finals, apivars, sinkvars>>

\* before_train returns; the first test of the while loop
BeforeTrainReturn(o) ==
    /\ pc = "before_train"
    /\ IF o = "ok" THEN WhileLoop /\ UNCHANGED cb_state ELSE Raise(o)
    /\ UNCHANGED <<config, finals, apivars, sinkvars>>

\* before_epoch returns; the for loop starts
BeforeEpochReturn(o) ==
    /\ pc = "before_epoch"
    /\ IF o = "ok" THEN ForLoop /\ UNCHANGED cb_state ELSE Raise(o)
    /\ UNCHANGED <<config, finals, apivars, sinkvars>>

\* (mutant) after_step is delivered without run_step
BeforeStepReturnSkipsRun(o) ==
    /\ pc = "before_step"
    /\ IF o = "ok"
       THEN /\ UNCHANGED <<counters, iter_pos, epoch_iter, raised, pending, cb_state>>
            /\ Enter("after_step")
       ELSE Raise(o)
    /\ UNCHANGED <<config, finals, apivars, sinkvars>>

\* before_step returns; line 107
BeforeStepReturn(o) ==
    /\ pc = "before_step"
    /\ IF o = "ok"
       THEN /\ UNCHANGED <<counters, iter_pos, epoch_iter, raised, pending, cb_state>>
            /\ Enter("run_step")
       ELSE Raise(o)
    /\ UNCHANGED <<config, finals, apivars, sinkvars>>

\* run_step returns; line 108
RunStepReturn(o) ==
    /\ pc = "run_step"
    /\ IF o = "ok"
       THEN /\ UNCHANGED <<counters, iter_pos, epoch_iter, raised, pending, cb_state>>
            /\ Enter("after_step")
       ELSE Raise(o)
    /\ UNCHANGED <<config, finals, apivars, sinkvars>>

\* after_step returns (the stateful callback has counted the step); line 110
AfterStepReturn(o) ==
    /\ pc = "after_step"
    /\ IF o = "ok"
       THEN /\ cb_state' = cb_state + 1
            /\ UNCHANGED <<counters, iter_pos, epoch_iter, raised, pending>>
            /\ Enter("trigger_step")
       ELSE Raise(o)
    /\ UNCHANGED <<config, finals, apivars, sinkvars>>

\* trigger_step returns; the for loop goes on
TriggerStepReturn(o) ==
    /\ pc = "trigger_step"
    /\ IF o = "ok" THEN ForLoop /\ UNCHANGED cb_state ELSE Raise(o)
    /\ UNCHANGED <<config, finals, apivars, sinkvars>>

\* after_epoch returns; lines 119-123
AfterEpochReturn(o) ==
    /\ pc = "after_epoch"
    /\ IF o = "ok" THEN EvalGate /\ UNCHANGED cb_state ELSE Raise(o)
    /\ UNCHANGED <<config, finals, apivars, sinkvars>>

\* trigger_epoch returns; the while loop goes on
TriggerEpochReturn(o) ==
    /\ pc = "trigger_epoch"
    /\ IF o = "ok" THEN WhileLoop /\ UNCHANGED cb_state ELSE Raise(o)
    /\ UNCHANGED <<config, finals, apivars, sinkvars>>

\* --------------------------------------------------------- after_train

\* Monitors._after_train (lines 82-84): a plain loop over self.monitors, from
\* monitor i on; outs[m] is what monitor m's after_train does when called.
\* The loop ends at the first monitor that raises.
RECURSIVE MonitorsAfterTrain(_, _)
MonitorsAfterTrain(outs, i) ==
    IF i > NumMonitors
    THEN [called |-> {}, outcome |-> "ok"]
    ELSE IF outs[i] # "ok"
         THEN [called |-> {i}, outcome |-> outs[i]]
         ELSE LET rest == MonitorsAfterTrain(outs, i + 1)
              IN  [called |-> {i} \cup rest.called, outcome |-> rest.outcome]

\* Callbacks.after_train: every registered callback from i on is called, in
\* order; a failure of one is reported and the loop goes on
RECURSIVE CallbacksAfterTrain(_, _)
CallbacksAfterTrain(outs, i) ==
    IF i > NumCallbacks
    THEN [called |-> {}, outcome |-> "ok"]
    ELSE LET rest == CallbacksAfterTrain(outs, i + 1)
         IN  [called |-> {i} \cup rest.called, outcome |-> rest.outcome]

\* Trainer.after_train (lines 204-206): is _after_train reached
OwnAfterTrainRuns(group) == group = "ok"

\* what leaves the finally clause (line 139): an exception of after_train
\* replaces the one in flight
Finally(group, inflight) == IF group # "ok" THEN group ELSE inflight

\* the finally clause: self.after_train() returns and train ends
AfterTrainReturn(mouts, couts) ==
    /\ pc = "after_train"
    /\ LET mon == MonitorsAfterTrain(mouts, 1)
           outs == [c \in 1..NumCallbacks |-> IF c = 1 THEN mon.outcome ELSE couts[c]]
           grp == CallbacksAfterTrain(outs, 1)
           left == Finally(grp.outcome, pending)
       IN  /\ callbacks_calls' = callbacks_calls + 1
           /\ callback_after' = [c \in 1..NumCallbacks |->
                                   callback_after[c] + (IF c \in grp.called THEN 1 ELSE 0)]
           /\ monitor_after' = [m \in 1..NumMonitors |->
                                  monitor_after[m]
                                  + (IF 1 \in grp.called /\ m \in mon.called THEN 1 ELSE 0)]
           /\ own_after' = own_after + (IF OwnAfterTrainRuns(grp.outcome) THEN 1 ELSE 0)
           /\ after_raised' = {mouts[m] : m \in {k \in mon.called : 1 \in grp.called}}
                              \cup {couts[c] : c \in grp.called \ {1}}
           /\ result' = IF left = "none" THEN "returned" ELSE left
    /\ pc' = "done"
    /\ UNCHANGED <<config, counters, iter_pos, epoch_iter, raised, pending, log,
                   cb_state, apivars, sinkvars>>

\* ------------------------------------------- state_dict / load_state_dict

\* the run has begun stepping
Begun == \E i \in 1..Len(log) : log[i].hook = "before_step"

\* Trainer.state_dict (lines 211-217)
StateDict == [callbacks |-> cb_state, epoch_num |-> epoch_num,
              local_step |-> local_step, global_step |-> global_step]

\* state_dict reads an attribute that was never assigned
StateDictRaises ==
    \/ ~has_callbacks
    \/ epoch_num = Unset
    \/ local_step = Unset
    \/ global_step = Unset

\* the snapshots an earlier run over a dataflow of d batches can have saved
SnapshotsOf(d) ==
    { [callbacks |-> (e - 1) * d + l, epoch_num |-> e,
       local_step |-> l, global_step |-> (e - 1) * d + l] :
      e \in 1..MaxEpochs, l \in 0..d }

\* Trainer.load_state_dict (lines 222-227)
LoadStateDict(sd) ==
    /\ epoch_num' = sd.epoch_num
    /\ local_step' = sd.local_step
    /\ global_step' = sd.global_step
    /\ IF has_callbacks
       THEN cb_state' = sd.callbacks /\ cb_loaded' = sd.callbacks
       ELSE UNCHANGED <<cb_state, cb_loaded>>   \* self.callbacks: AttributeError

ApiCall(op, outcome, produced) ==
    [op |-> op, at |-> pc, begun |-> Begun, outcome |-> outcome,
     before |-> <<epoch_num, local_step, global_step>>,
     after |-> <<epoch_num', local_step', global_step'>>,
     produced |-> produced]

\* a callback, inside a hook, calls trainer.load_state_dict(trainer.state_dict())
RoundTrip ==
    /\ pc \in CallbackHooks
    /\ api_calls < MaxApiCalls
    /\ api_calls' = api_calls + 1
    /\ IF StateDictRaises
       THEN /\ UNCHANGED <<counters, cb_state, cb_loaded>>
            /\ api' = ApiCall("roundtrip", "Error", cb_state)
       ELSE /\ LoadStateDict(StateDict)
            /\ api' = ApiCall("roundtrip", "ok", cb_state)
    /\ UNCHANGED <<pc, log, config, iter_pos, epoch_iter, raised, pending, restored,
                   finals, sinkvars>>

\* a callback, inside a hook, calls trainer.load_state_dict(sd) with a snapshot
\* of an earlier run over the same dataflow
Restore(sd) ==
    /\ pc \in CallbackHooks
    /\ api_calls < MaxApiCalls
    /\ api_calls' = api_calls + 1
    /\ LoadStateDict(sd)
    /\ api' = ApiCall("load", "ok", sd.callbacks)
    /\ restored' = IF Begun THEN restored
                   ELSE [at |-> pc, epoch_num |-> sd.epoch_num,
                         local_step |-> sd.local_step, global_step |-> sd.global_step]
    /\ UNCHANGED <<pc, log, config, iter_pos, epoch_iter, raised, pending, finals,
                   sinkvars>>

\* trainer.load_state_dict(sd) on a trainer whose train has not been called
RestoreIdle(sd) ==
    /\ pc = "idle"
    /\ api_calls < MaxApiCalls
    /\ api_calls' = api_calls + 1
    /\ LoadStateDict(sd)
    /\ api' = ApiCall("load", "Error", sd.callbacks)
    /\ restored' = [at |-> "idle", epoch_num |-> sd.epoch_num,
                    local_step |-> sd.local_step, global_step |-> sd.global_step]
    /\ UNCHANGED <<pc, log, config, iter_pos, epoch_iter, raised, pending, finals,
                   sinkvars>>

\* ------------------------------------------------------------- the sinks

\* The public hooks of a monitor (before_train, trigger_step, trigger_epoch,
\* add_scalar, ...) are those of Callback and Monitor: each forwards to the
\* handler of the same name with a leading underscore, which the sink overrides.
\* JSONWriter assigns _stats and _stat_now in _before_train only; callbacks report
\* scalars from the hooks of ReportHooks, which all come after before_train.

\* hooks in which a callback reports scalars to the Monitors group
ReportHooks == {"after_step", "after_epoch"}

\* one entry of sink_log: the call or hook (event), the hook it happened in (at:
\* index in log), the counters the sinks read, and what the call did
SinkEvent(event, name, val, failed, outcome, flushed, rendered, wrote, returned) ==
    [event |-> event, at |-> Len(log), hook |-> pc, name |-> name, val |-> val,
     epoch_num |-> epoch_num, local_step |-> local_step, global_step |-> global_step,
     failed |-> failed, outcome |-> outcome, flushed |-> flushed,
     rendered |-> rendered, wrote |-> wrote, returned |-> returned,
     buffered |-> DOMAIN stat_now, shown |-> DOMAIN dic, file |-> stats_json,
     cached |-> IF name \in DOMAIN scalars THEN Len(scalars[name]) ELSE 0,
     keys |-> DOMAIN scalars,
     got |-> [m \in SinkNames |-> Len(received[m])]]

\* a call or handler of the sinks has failed inside the hook being executed
HookFailed ==
    \E i \in 1..Len(sink_log) : sink_log[i].at = Len(log) /\ sink_log[i].outcome = "Error"

\* the Monitors group has handled the hook being executed (it is callback 1)
Delivered ==
    \E i \in 1..Len(sink_log) : sink_log[i].at = Len(log) /\ sink_log[i].event = pc

\* the hook returns only after the Monitors group has handled it
Handled == pc \in {"before_train", "trigger_step", "trigger_epoch"} => Delivered

\* self.scalars[name] on the defaultdict(list) of line 72: a missing key is
\* inserted with an empty list
Lookup(name) == IF name \in DOMAIN scalars THEN scalars ELSE Put(scalars, name, <<>>)

\* the members of self.monitors that the loop of lines 116-117 reaches when the
\* add_scalar of member failed raises ("none": no member raises)
Reached(failed) ==
    {Sinks[i] : i \in {j \in 1..Len(Sinks) :
                         \A k \in 1..(j - 1) : Sinks[k] # failed}}

\* Monitor.add_scalar (lines 27-33) on the Monitors group, then
\* Monitors._add_scalar (lines 114-117); tf_ok: writer.add_summary succeeds
AddScalar(name, val, tf_ok) ==
    LET failed == IF tf_ok THEN "none" ELSE "TFEventWriter"
        reached == Reached(failed)
        done == reached \ {failed}
    IN  /\ pc \in ReportHooks
        /\ Handled /\ ~HookFailed
        /\ sink_calls < MaxSinkCalls
        /\ sink_calls' = sink_calls + 1
        /\ scalars' = [Lookup(name) EXCEPT ![name] = Append(@, <<global_step, val>>)]
        /\ received' = [m \in SinkNames |->
                          IF m \in reached THEN Append(received[m], <<name, val>>)
                          ELSE received[m]]
        \* TFEventWriter._add_scalar, _add_summary: lines 159-163
        /\ events' = IF "TFEventWriter" \in done
                     THEN Append(events, <<name, val, global_step>>) ELSE events
        \* JSONWriter._add_scalar: lines 272-273
        /\ stat_now' = IF "JSONWriter" \in done THEN Put(stat_now, name, val) ELSE stat_now
        \* ScalarPrinter._add_scalar: lines 344-345
        /\ dic' = IF "ScalarPrinter" \in done THEN Put(dic, name, val) ELSE dic
        /\ sink_log' = Append(sink_log,
                              SinkEvent("add_scalar", name, val, failed,
                                        IF failed = "none" THEN "ok" ELSE "Error",
                                        FALSE, FALSE, "none", <<>>))
        /\ UNCHANGED <<stats, stats_json, backups, enable_step, enable_epoch>>
        /\ UNCHANGED <<trainvars, imagevars>>

\* hooks in which a callback reads the cache of the Monitors group
QueryHooks == {"after_epoch"}

\* Monitors.get_history (lines 126-127): self.scalars[name]
GetHistory(name) ==
    /\ pc \in QueryHooks
    /\ Handled /\ ~HookFailed
    /\ sink_calls < MaxSinkCalls
    /\ sink_calls' = sink_calls + 1
    /\ scalars' = Lookup(name)
    /\ sink_log' = Append(sink_log,
                          SinkEvent("get_history", name, 0, "none", "ok", FALSE, FALSE,
                                    "none", Lookup(name)[name]))
    /\ UNCHANGED <<received, stats, stat_now, stats_json, backups, dic, enable_step,
                   enable_epoch, events>>
    /\ UNCHANGED <<trainvars, imagevars>>

\* Monitors.get_latest (lines 123-124): self.scalars[name][-1][1]; [-1] of an
\* empty list is an IndexError
GetLatest(name) ==
    LET history == Lookup(name)[name]
        empty == Len(history) = 0
    IN  /\ pc \in QueryHooks
        /\ Handled /\ ~HookFailed
        /\ sink_calls < MaxSinkCalls
        /\ sink_calls' = sink_calls + 1
        /\ scalars' = Lookup(name)
        /\ sink_log' = Append(sink_log,
                              SinkEvent("get_latest", name, 0, "none",
                                        IF empty THEN "Error" ELSE "ok", FALSE, FALSE,
                                        "none",
                                        IF empty THEN <<>>
                                        ELSE <<history[Len(history)][2]>>))
        /\ UNCHANGED <<received, stats, stat_now, stats_json, backups, dic, enable_step,
                       enable_epoch, events>>
        /\ UNCHANGED <<trainvars, imagevars>>

\* the JSONWriter: its history, its pending buffer, and the files it keeps
Writer == [stats |-> stats, stat_now |-> stat_now, file |-> stats_json,
           backups |-> backups]

\* (mutant) the pending buffer is not replaced by an empty one
TriggerKeepsBuffer(w, io_ok) ==
    IF DOMAIN w.stat_now # {}
    THEN LET rec == Put(Put(w.stat_now, "epoch_num", epoch_num),
                        "global_step", global_step)
             hist == Append(w.stats, rec)
         IN  [w EXCEPT !.stats = hist,
                       !.file = IF io_ok THEN File(hist) ELSE @]
    ELSE w

\* JSONWriter._trigger (lines 252-270); io_ok: json.dump and shutil.move succeed,
\* otherwise the IOError is caught and logged (lines 269-270)
Trigger(w, io_ok) ==
    IF DOMAIN w.stat_now # {}
    THEN LET rec == Put(Put(w.stat_now, "epoch_num", epoch_num),
                        "global_step", global_step)
             hist == Append(w.stats, rec)
         IN  [w EXCEPT !.stats = hist, !.stat_now = EmptyDict,
                       !.file = IF io_ok THEN File(hist) ELSE @]
    ELSE w

\* what the call of _trigger did to the file
Wrote(w, io_ok) ==
    IF DOMAIN w.stat_now = {} THEN "none" ELSE IF io_ok THEN "ok" ELSE "failed"

\* the condition of lines 246 and 314: "not the last step"
NotLastStep == local_step # steps_per_epoch - 1

\* JSONWriter._trigger_step (lines 244-247)
JSONTriggerStep(w, io_ok) == IF NotLastStep THEN Trigger(w, io_ok) ELSE w

\* ScalarPrinter._trigger_step (lines 312-320): is _trigger called
PrinterTriggerStep == enable_step /\ (NotLastStep \/ ~enable_epoch)

\* ScalarPrinter._trigger_epoch (lines 322-324): is _trigger called
PrinterTriggerEpoch == enable_epoch

\* Monitors._trigger_step (lines 110-112): the TFEventWriter has no handler, then
\* JSONWriter._trigger_step, then ScalarPrinter._trigger_step; ScalarPrinter._trigger
\* (lines 326-342) renders the buffer and replaces it by an empty one
MonitorsTriggerStep(io_ok) ==
    LET w == JSONTriggerStep(Writer, io_ok)
    IN  /\ pc = "trigger_step"
        /\ ~Delivered
        /\ stats' = w.stats
        /\ stat_now' = w.stat_now
        /\ stats_json' = w.file
        /\ dic' = IF PrinterTriggerStep THEN EmptyDict ELSE dic
        /\ sink_log' = Append(sink_log,
                              SinkEvent("trigger_step", "", 0, "none", "ok", NotLastStep,
                                        PrinterTriggerStep,
                                        IF NotLastStep THEN Wrote(Writer, io_ok) ELSE "none", <<>>))
        /\ UNCHANGED <<scalars, received, backups, enable_step, enable_epoch, events,
                       sink_calls>>
        /\ UNCHANGED <<trainvars, imagevars>>

\* Monitors._trigger_epoch (lines 106-108): TFEventWriter._trigger flushes the event
\* file (lines 150-154; tf_ok: writer.flush() succeeds), then JSONWriter._trigger_epoch
\* (lines 249-250), then ScalarPrinter._trigger_epoch
MonitorsTriggerEpoch(tf_ok, io_ok) ==
    LET w == IF tf_ok THEN Trigger(Writer, io_ok) ELSE Writer
    IN  /\ pc = "trigger_epoch"
        /\ ~Delivered
        /\ stats' = w.stats
        /\ stat_now' = w.stat_now
        /\ stats_json' = w.file
        /\ dic' = IF tf_ok /\ PrinterTriggerEpoch THEN EmptyDict ELSE dic
        /\ sink_log' = Append(sink_log,
                              SinkEvent("trigger_epoch", "", 0,
                                        IF tf_ok THEN "none" ELSE "TFEventWriter",
                                        IF tf_ok THEN "ok" ELSE "Error",
                                        tf_ok, tf_ok /\ PrinterTriggerEpoch,
                                        IF tf_ok THEN Wrote(Writer, io_ok) ELSE "none", <<>>))
        /\ UNCHANGED <<scalars, received, backups, enable_step, enable_epoch, events,
                       sink_calls>>
        /\ UNCHANGED <<trainvars, imagevars>>

\* a callback calls _trigger of the JSONWriter (lines 252-270) inside its hook
TriggerCall(io_ok) ==
    LET w == Trigger(Writer, io_ok)
    IN  /\ pc \in ReportHooks
        /\ Handled /\ ~HookFailed
        /\ sink_calls < MaxSinkCalls
        /\ sink_calls' = sink_calls + 1
        /\ stats' = w.stats
        /\ stat_now' = w.stat_now
        /\ stats_json' = w.file
        /\ sink_log' = Append(sink_log,
                              SinkEvent("trigger", "", 0, "none", "ok", TRUE, FALSE,
                                        Wrote(Writer, io_ok), <<>>))
        /\ UNCHANGED <<scalars, received, backups, dic, enable_step, enable_epoch,
                       events>>
        /\ UNCHANGED <<trainvars, imagevars>>

\* self.trainer.starting_epoch (line 223): Trainer assigns no such attribute
StartingEpoch == Unset

\* lines 218-221: the epoch after the last persisted record, None if it has none
NextEpochOf(content) ==
    IF Len(content) > 0 /\ "epoch_num" \in DOMAIN content[Len(content)]
    THEN content[Len(content)]["epoch_num"] + 1
    ELSE None

\* JSONWriter._before_train raises: reading the missing attribute, line 223
BeforeTrainRaises(w) == w.file.exists /\ StartingEpoch = Unset

\* JSONWriter._before_train (lines 208-242), up to the failure if it raises
JSONBeforeTrain(w, io_ok) ==
    LET fresh == [w EXCEPT !.stats = <<>>, !.stat_now = EmptyDict]
        epoch == NextEpochOf(w.file.content)
    IN  IF ~w.file.exists THEN Trigger(fresh, io_ok)
        ELSE IF StartingEpoch = Unset THEN fresh
        ELSE IF epoch = None \/ epoch = StartingEpoch
             THEN Trigger([fresh EXCEPT !.stats = w.file.content], io_ok)
             ELSE Trigger([fresh EXCEPT !.backups = @ \cup {w.file.content},
                                        !.file = NoFile], io_ok)

\* Monitors._before_train (lines 78-80): TFEventWriter._before_train opens the event
\* file, then JSONWriter._before_train, then ScalarPrinter._before_train (309-310)
MonitorsBeforeTrain(io_ok) ==
    LET w == JSONBeforeTrain(Writer, io_ok)
        fails == BeforeTrainRaises(Writer)
    IN  /\ pc = "before_train"
        /\ ~Delivered
        /\ stats' = w.stats
        /\ stat_now' = w.stat_now
        /\ stats_json' = w.file
        /\ backups' = w.backups
        /\ dic' = IF fails THEN dic ELSE EmptyDict
        /\ sink_log' = Append(sink_log,
                              SinkEvent("before_train", "", 0,
                                        IF fails THEN "JSONWriter" ELSE "none",
                                        IF fails THEN "Error" ELSE "ok",
                                        ~fails, ~fails, "none", <<>>))
        /\ UNCHANGED <<scalars, received, enable_step, enable_epoch, events, sink_calls>>
        /\ UNCHANGED <<trainvars, imagevars>>

\* a record of a persisted history: the metrics of one flush, stamped
Persisted(e, g) ==
    [k \in {"loss", "epoch_num", "global_step"} |->
        IF k = "epoch_num" THEN e ELSE IF k = "global_step" THEN g ELSE 1]

\* what an earlier run may have left in stats.json
PriorFiles == {NoFile, File(<<>>), File(<<Persisted(0, 0)>>),
               File(<<Persisted(0, 0), Persisted(1, 1)>>)}

\* before train is called: ScalarPrinter(trigger_epoch=ee, trigger_step=es) is
\* constructed (lines 303-305), and the logger dir holds what an earlier run left
Setup(es, ee, file) ==
    /\ pc = "idle"
    /\ sink_log = <<>>
    /\ enable_step' = es
    /\ enable_epoch' = ee
    /\ stats_json' = file
    /\ sink_log' = Append(sink_log,
                          SinkEvent("construct", "", 0, "none", "ok", FALSE, FALSE, "none", <<>>))
    /\ UNCHANGED <<scalars, received, stats, stat_now, backups, dic, events, sink_calls>>
    /\ UNCHANGED <<trainvars, imagevars>>

\* how the hook being executed ends: what a sink raised reaches the trainer
HookOutcome == IF HookFailed THEN "Error" ELSE "ok"

\* ---------------------------------------------------------------- images

\* shapes of rank r with extents 1..MaxDim
ShapesOfRank(r) == [1..r -> 1..MaxDim]

\* the values reported as images: numpy arrays of rank 0..MaxRank, and a value
\* that is no array
Images ==
    {[ndarray |-> TRUE, shape |-> sh] :
        sh \in UNION {ShapesOfRank(r) : r \in 0..MaxRank}} \cup {NoImage}

\* (mutant) a last axis of 4 (RGBA) is not taken for the channel axis
AddImageShapeNoAlpha(shape) ==
    IF Len(shape) = 2 THEN <<1>> \o shape \o <<1>>
    ELSE IF Len(shape) = 3
         THEN IF shape[3] \in {1, 3} THEN <<1>> \o shape ELSE shape \o <<1>>
         ELSE shape

\* lines 42-49: the shape of val after the np.newaxis indexing
AddImageShape(shape) ==
    IF Len(shape) = 2 THEN <<1>> \o shape \o <<1>>
    ELSE IF Len(shape) = 3
         THEN IF shape[3] \in {1, 3, 4} THEN <<1>> \o shape ELSE shape \o <<1>>
         ELSE shape

\* the hook in which a callback reports an image, and the tag it reports it under
ImageHooks == {"after_step"}
ImageTag == "img"

\* Monitor.add_image (lines 38-51) called by a callback on the Monitors group:
\* the asserts of lines 41 and 50 fail, or self._add_image(name, val) is called
\* with the reshaped val. Monitors._add_image (lines 119-121) hands that val to
\* the add_image of each member, which passes a rank-4 array on as it is:
\* TFEventWriter._add_image (lines 165-166) writes an image summary at
\* global_step, JSONWriter and ScalarPrinter inherit the empty _add_image of
\* line 53. tf_ok: writer.add_summary succeeds
AddImage(img, tf_ok) ==
    LET shape == AddImageShape(img.shape)
        passes == img.ndarray /\ Len(shape) = 4
        failed == IF ~passes THEN "Monitors"
                  ELSE IF ~tf_ok THEN "TFEventWriter" ELSE "none"
    IN  /\ pc \in ImageHooks
        /\ Handled /\ ~HookFailed
        /\ ~image_out.done
        /\ image_in' = img
        /\ image_out' =
              IF passes
              THEN [done |-> TRUE, called |-> TRUE, shape |-> shape]
              ELSE [done |-> TRUE, called |-> FALSE, shape |-> <<>>]
        /\ events' = IF failed = "none"
                     THEN Append(events, <<ImageTag, AddImageShape(shape), global_step>>)
                     ELSE events
        /\ sink_log' = Append(sink_log,
                              SinkEvent("add_image", ImageTag, 0, failed,
                                        IF failed = "none" THEN "ok" ELSE "Error",
                                        FALSE, FALSE, "none", <<>>))
        /\ UNCHANGED <<scalars, received, stats, stat_now, stats_json, backups, dic,
                       enable_step, enable_epoch, sink_calls>>
        /\ UNCHANGED trainvars

\* ------------------------------------------------------- specification

\* a run of train in which no callback calls state_dict / load_state_dict, and
\* none reports a scalar to the sinks
Next ==
    \/ \E d \in 0..MaxSteps, n \in 0..MaxEpochs, ei \in EvalIntervals : Train(d, n, ei)
    \/ \E o \in Outcomes : SetTrainerReturn(o)
    \/ \E o \in Outcomes : BeforeTrainReturn(o)
    \/ \E o \in Outcomes : BeforeEpochReturn(o)
    \/ \E o \in Outcomes : BeforeStepReturn(o)
    \/ \E o \in Outcomes : RunStepReturn(o)
    \/ \E o \in Outcomes : AfterStepReturn(o)
    \/ \E o \in Outcomes : TriggerStepReturn(o)
    \/ \E o \in Outcomes : AfterEpochReturn(o)
    \/ \E o \in Outcomes : TriggerEpochReturn(o)
    \/ \E mouts \in [1..NumMonitors -> Outcomes], couts \in [2..NumCallbacks -> Outcomes] :
          AfterTrainReturn(mouts, couts)

Spec == Init /\ [][Next]_vars

\* the same run, with callbacks that snapshot and restore the trainer
NextRestore ==
    \/ Next
    \/ RoundTrip
    \/ \E sd \in SnapshotsOf(dataflow) : Restore(sd)
    \/ \E sd \in SnapshotsOf(MaxSteps) : RestoreIdle(sd)

SpecRestore == Init /\ [][NextRestore]_vars

\* a run of train whose callbacks are the Monitors group and a callback that
\* reports scalars; only the sinks raise
NextSinks ==
    \/ \E es \in BOOLEAN, ee \in BOOLEAN, file \in PriorFiles : Setup(es, ee, file)
    \/ /\ sink_log # <<>>
       /\ \E d \in 0..MaxSteps, n \in 0..MaxEpochs, ei \in EvalIntervals : Train(d, n, ei)
    \/ SetTrainerReturn("ok")
    \/ \E io_ok \in BOOLEAN : MonitorsBeforeTrain(io_ok)
    \/ Handled /\ BeforeTrainReturn(HookOutcome)
    \/ BeforeEpochReturn("ok")
    \/ BeforeStepReturn("ok")
    \/ RunStepReturn("ok")
    \/ AfterStepReturn(HookOutcome)
    \/ \E io_ok \in BOOLEAN : MonitorsTriggerStep(io_ok)
    \/ Handled /\ TriggerStepReturn(HookOutcome)
    \/ AfterEpochReturn(HookOutcome)
    \/ \E tf_ok \in BOOLEAN, io_ok \in BOOLEAN : MonitorsTriggerEpoch(tf_ok, io_ok)
    \/ Handled /\ TriggerEpochReturn(HookOutcome)
    \/ AfterTrainReturn([m \in 1..NumMonitors |-> "ok"], [c \in 2..NumCallbacks |-> "ok"])
    \/ \E name \in Names, val \in Values, tf_ok \in BOOLEAN : AddScalar(name, val, tf_ok)
    \/ \E name \in Names : GetHistory(name)
    \/ \E name \in Names : GetLatest(name)

SpecSinks == Init /\ [][NextSinks]_vars

\* one epoch of one step with a fresh logger dir and the default ScalarPrinter,
\* in which a callback reports one of Images to the Monitors group in
\* after_step; only that call fails
NextImage ==
    \/ Train(1, 1, None)
    \/ SetTrainerReturn("ok")
    \/ MonitorsBeforeTrain(TRUE)
    \/ Handled /\ BeforeTrainReturn("ok")
    \/ BeforeEpochReturn("ok")
    \/ BeforeStepReturn("ok")
    \/ RunStepReturn("ok")
    \/ /\ pc \in ImageHooks /\ ~image_out.done
       /\ \E img \in Images, tf_ok \in BOOLEAN : AddImage(img, tf_ok)
    \/ AfterStepReturn(HookOutcome)
    \/ MonitorsTriggerStep(TRUE)
    \/ Handled /\ TriggerStepReturn("ok")
    \/ AfterEpochReturn("ok")
    \/ MonitorsTriggerEpoch(TRUE, TRUE)
    \/ Handled /\ TriggerEpochReturn("ok")
    \/ AfterTrainReturn([m \in 1..NumMonitors |-> "ok"], [c \in 2..NumCallbacks |-> "ok"])

SpecImage == Init /\ [][NextImage]_vars

\* one epoch of train with a fresh logger dir and the default ScalarPrinter, in
\* which no write of the TFEventWriter fails and a callback also triggers the
\* JSONWriter
NextWriter ==
    \/ /\ sink_log = <<>>
       /\ \E d \in 1..MaxSteps : Train(d, 1, None)
    \/ SetTrainerReturn("ok")
    \/ \E io_ok \in BOOLEAN : MonitorsBeforeTrain(io_ok)
    \/ Handled /\ BeforeTrainReturn("ok")
    \/ BeforeEpochReturn("ok")
    \/ BeforeStepReturn("ok")
    \/ RunStepReturn("ok")
    \/ AfterStepReturn("ok")
    \/ \E io_ok \in BOOLEAN : MonitorsTriggerStep(io_ok)
    \/ Handled /\ TriggerStepReturn("ok")
    \/ AfterEpochReturn("ok")
    \/ \E io_ok \in BOOLEAN : MonitorsTriggerEpoch(TRUE, io_ok)
    \/ Handled /\ TriggerEpochReturn("ok")
    \/ AfterTrainReturn([m \in 1..NumMonitors |-> "ok"], [c \in 2..NumCallbacks |-> "ok"])
    \/ \E name \in Names, val \in Values : AddScalar(name, val, TRUE)
    \/ \E io_ok \in BOOLEAN : TriggerCall(io_ok)

SpecWriter == Init /\ [][NextWriter]_vars

\* ================================================================ claims

\* the hook logged at i raised (or, for after_epoch, the test that follows it)
RaisedAt(i) == raised.what # "none" /\ raised.at = i

SameStep(i, j) == log[i].ep = log[j].ep /\ log[i].it = log[j].it

\* the hook that follows h inside a step
NextInStep(h) ==
    CASE h = "before_step" -> {"run_step"}
      [] h = "run_step" -> {"after_step"}
      [] h = "after_step" -> {"trigger_step"}
      [] h = "trigger_step" -> {"before_step", "after_epoch"}

\* ---------------------------------------------------------------------
\* C1: in every run, the hooks of a step are entered in the order
\* before_step, run_step, after_step, trigger_step, each once, with no hook
\* of another step or of the epoch level between them; only a hook that
\* raises cuts its step short, and then after_train follows at once.
C1_StepHookOrder ==
    \A i \in 1..Len(log) :
        LET h == log[i].hook IN
        /\ h = "before_step" =>
              /\ i > 1
              /\ log[i - 1].ep = log[i].ep
              /\ \/ log[i - 1].hook = "before_epoch" /\ log[i].it = 1
                 \/ log[i - 1].hook = "trigger_step" /\ log[i].it = log[i - 1].it + 1
        /\ h = "run_step" =>
              i > 1 /\ log[i - 1].hook = "before_step" /\ SameStep(i - 1, i)
        /\ h = "after_step" =>
              i > 1 /\ log[i - 1].hook = "run_step" /\ SameStep(i - 1, i)
        /\ h = "trigger_step" =>
              i > 1 /\ log[i - 1].hook = "after_step" /\ SameStep(i - 1, i)
        /\ (h \in StepHooks /\ i < Len(log)) =>
              IF RaisedAt(i)
              THEN log[i + 1].hook = "after_train"
              ELSE /\ log[i + 1].hook \in NextInStep(h)
                   /\ h # "trigger_step" => SameStep(i, i + 1)
        /\ h \in StepHooks =>
              \A j \in 1..Len(log) : (log[j].hook = h /\ SameStep(i, j)) => j = i

\* a run of two epochs of two steps has returned, no hook having raised
C1_Witness ==
    /\ pc = "done"
    /\ result = "returned"
    /\ raised.what = "none"
    /\ \E i \in 1..Len(log) :
          log[i].hook = "trigger_step" /\ log[i].ep = 2 /\ log[i].it = 2

\* eval_interval divides e (stated without %)
Divides(e) == \E k \in 0..e : k * eval_interval = e

\* trigger_epoch is due in epoch e
Due(e) == eval_interval = None \/ Divides(e)

\* ---------------------------------------------------------------------
\* C2: every epoch enters before_epoch once, before its first step, and
\* after_epoch once, after its last step, whatever eval_interval is;
\* trigger_epoch is entered once, right after after_epoch, when eval_interval
\* is unset or divides the epoch number, and not at all otherwise.  (The
\* epoch number is the ordinal of the epoch when no snapshot was loaded.)
C2_EpochHookOrder ==
    \A i \in 1..Len(log) :
        LET h == log[i].hook IN
        /\ h = "before_epoch" =>
              /\ i > 1
              /\ log[i].it = 0
              /\ log[i].ep = log[i - 1].ep + 1
              /\ \/ log[i - 1].hook \in {"before_train", "trigger_epoch"}
                 \/ log[i - 1].hook = "after_epoch" /\ ~Due(log[i].epoch_num - 1)
        /\ (h = "before_epoch" /\ i < Len(log)) =>
              IF RaisedAt(i)
              THEN log[i + 1].hook = "after_train"
              ELSE /\ log[i + 1].ep = log[i].ep
                   /\ IF dataflow > 0
                      THEN log[i + 1].hook = "before_step" /\ log[i + 1].it = 1
                      ELSE log[i + 1].hook = "after_epoch"
        /\ h = "after_epoch" =>
              /\ i > 1
              /\ SameStep(i - 1, i)
              /\ log[i].it = dataflow
              /\ \/ log[i - 1].hook = "trigger_step"
                 \/ log[i - 1].hook = "before_epoch" /\ dataflow = 0
        /\ (h = "after_epoch" /\ i < Len(log)) =>
              IF RaisedAt(i)
              THEN log[i + 1].hook = "after_train"
              ELSE \/ /\ log[i + 1].hook = "trigger_epoch"
                      /\ log[i + 1].ep = log[i].ep
                      /\ Due(log[i + 1].epoch_num)
                   \/ log[i + 1].hook = "before_epoch" /\ ~Due(log[i + 1].epoch_num - 1)
                   \/ log[i + 1].hook = "after_train" /\ ~Due(log[i + 1].epoch_num)
        /\ h = "trigger_epoch" =>
              /\ i > 1
              /\ log[i - 1].hook = "after_epoch"
              /\ log[i - 1].ep = log[i].ep
              /\ Due(log[i].epoch_num)
        /\ h \in EpochHooks =>
              \A j \in 1..Len(log) : (log[j].hook = h /\ log[j].ep = log[i].ep) => j = i
        /\ (api_calls = 0 /\ h \in EpochHooks \cup StepHooks) =>
              log[i].epoch_num = log[i].ep

\* two epochs under eval_interval = 2 have run to the end: trigger_epoch was
\* skipped in epoch 1 and entered in epoch 2
C2_Witness ==
    /\ pc = "done"
    /\ raised.what = "none"
    /\ eval_interval = 2
    /\ dataflow = 2
    /\ \E i \in 1..Len(log) : log[i].hook = "trigger_epoch" /\ log[i].epoch_num = 2
    /\ \E i \in 1..Len(log) : log[i].hook = "after_epoch" /\ log[i].epoch_num = 1
    /\ ~\E i \in 1..Len(log) : log[i].hook = "trigger_epoch" /\ log[i].epoch_num = 1

AfterTrainEntries == {i \in 1..Len(log) : log[i].hook = "after_train"}

\* ---------------------------------------------------------------------
\* C3: however train ends (epochs exhausted, StopTraining, any other failure
\* of set_trainer, a hook or run_step), after_train is entered once, after
\* every other hook, and delivered to the callback group once; a failure
\* other than StopTraining reaches the caller of train.
C3_AfterTrainOnEveryExit ==
    /\ pc \notin {"after_train", "done"} =>
          AfterTrainEntries = {} /\ callbacks_calls = 0 /\ raised.what = "none"
    /\ pc = "after_train" =>
          AfterTrainEntries = {Len(log)} /\ callbacks_calls = 0
    /\ pc = "done" =>
          /\ AfterTrainEntries = {Len(log)}
          /\ callbacks_calls = 1
          /\ raised.what = "Error" => result = "Error"

\* run_step failed, after_train was delivered and train raised the failure
C3_Witness ==
    /\ pc = "done"
    /\ raised.what = "Error"
    /\ log[raised.at].hook = "run_step"
    /\ callbacks_calls = 1
    /\ result = "Error"

\* ---------------------------------------------------------------------
\* C4: once a callback has raised StopTraining in a hook of a step, no hook
\* but after_train is entered any more, epoch_num and global_step keep the
\* values they had, and when train ends every registered callback has
\* received after_train exactly once.
C4_StopTrainingEndsRun ==
    (raised.what = "StopTraining" /\ log[raised.at].hook \in StepHooks) =>
        /\ Len(log) <= raised.at + 1
        /\ \A i \in (raised.at + 1)..Len(log) : log[i].hook = "after_train"
        /\ epoch_num = raised.epoch_num
        /\ global_step = raised.global_step
        /\ pc \in {"after_train", "done"}
        /\ pc = "done" => \A c \in 1..NumCallbacks : callback_after[c] = 1

\* StopTraining was raised in after_step of the first step of the second
\* epoch, with a step and nothing else left to run, and train has ended
C4_Witness ==
    /\ pc = "done"
    /\ raised.what = "StopTraining"
    /\ log[raised.at].hook = "after_step"
    /\ log[raised.at].ep = 2
    /\ log[raised.at].it = 1
    /\ dataflow = 2
    /\ \A c \in 1..NumCallbacks : callback_after[c] = 1

\* ---------------------------------------------------------------------
\* the hooks (by index in log) in which a callback raised StopTraining: one of
\* the try body, or after_train when one of its handlers raised the signal
StopSignals ==
    {i \in 1..Len(log) :
        \/ raised.what = "StopTraining" /\ raised.at = i
                                        /\ log[i].hook \in CallbackHooks
        \/ log[i].hook = "after_train" /\ "StopTraining" \in after_raised}

\* the signals that the except clause of Trainer.train (lines 136-137) has
\* handled: raised out of the try body and no longer in flight
CaughtByTrain ==
    {i \in 1..Len(log) :
        raised.what = "StopTraining" /\ raised.at = i /\ pending = "none"}

\* C5 (as claimed): a StopTraining raised by a callback at any hook point,
\* after_train included, is caught by Trainer.train and never reaches the
\* caller of train.
C5_StopTrainingCaughtByTrain ==
    /\ result # "StopTraining"
    /\ StopSignals \subseteq CaughtByTrain

\* C5 (amended): a StopTraining raised by a callback in a hook of the try body
\* is caught by the except clause of Trainer.train; one raised by an
\* after_train handler is not caught by Trainer.train, whose finally clause
\* lets a StopTraining of self.after_train() through, but it is consumed by
\* the callback group, so that callbacks.after_train() returns and the
\* trainer's own _after_train runs. Either way the signal never reaches the
\* caller of train: unless something else failed, train returns normally.
C5_StopTrainingAmended ==
    /\ result # "StopTraining"
    /\ \A i \in StopSignals :
          log[i].hook \in BodyHooks <=> i \in CaughtByTrain
    /\ \A inflight \in {"none", "Error"} :
          Finally("StopTraining", inflight) = "StopTraining"
    /\ (pc = "done" /\ "StopTraining" \in after_raised) =>
          callbacks_calls = 1 /\ own_after = 1
    /\ (pc = "done" /\ StopSignals # {} /\ raised.what # "Error") =>
          result = "returned"

\* StopTraining was raised in trigger_epoch, where the except clause caught
\* it, and again by an after_train handler, where it did not leave the
\* callback group; train returned
C5_Witness ==
    /\ pc = "done"
    /\ raised.what = "StopTraining"
    /\ log[raised.at].hook = "trigger_epoch"
    /\ StopSignals = {raised.at, Len(log)}
    /\ CaughtByTrain = {raised.at}
    /\ own_after = 1
    /\ result = "returned"

\* ---------------------------------------------------------------------
\* C6: after_train is best-effort per participant: whatever the after_train
\* handlers of the monitors do, when train ends every monitor of the group
\* has received after_train and the trainer's own _after_train has run.
C6_AfterTrainBestEffort ==
    pc = "done" =>
        /\ \A m \in 1..NumMonitors : monitor_after[m] = 1
        /\ own_after = 1

InRun == EpochHooks \cup StepHooks

\* ---------------------------------------------------------------------
\* C7: throughout a run epoch_num and global_step never decrease,
\* global_step and local_step grow by exactly 1 at each step, local_step is 0
\* in before_epoch, and 0 <= local_step <= steps_per_epoch.
C7_CountersMonotone ==
    /\ \A i \in 1..Len(log) :
          /\ (i > 1 /\ log[i - 1].hook # "set_trainer") =>
                /\ log[i].epoch_num >= log[i - 1].epoch_num
                /\ log[i].global_step >= log[i - 1].global_step
          /\ log[i].hook = "before_step" =>
                /\ log[i].global_step = log[i - 1].global_step + 1
                /\ log[i].local_step = log[i - 1].local_step + 1
          /\ log[i].hook = "before_epoch" => log[i].local_step = 0
          /\ log[i].hook \in InRun =>
                log[i].local_step >= 0 /\ log[i].local_step <= steps_per_epoch
    /\ pc \in InRun \cup {"before_train"} =>
          /\ epoch_num >= log[Len(log)].epoch_num
          /\ global_step >= log[Len(log)].global_step
    /\ pc \in InRun => local_step >= 0 /\ local_step <= steps_per_epoch
    /\ pc = "before_epoch" => local_step = 0

\* ---------------------------------------------------------------------
\* C8: load_state_dict(state_dict()) called inside before_train, or in any
\* later hook before the first step, completes without error, leaves
\* epoch_num, local_step and global_step as they were and hands the callback
\* group the sub-state it produced.
C8_RoundTripBeforeFirstStep ==
    (api.op = "roundtrip" /\ ~api.begun /\ api.at \in {"before_train", "before_epoch"}) =>
        /\ api.outcome = "ok"
        /\ api.after = api.before
        /\ cb_loaded = api.produced

\* ---------------------------------------------------------------------
\* C9: load_state_dict called from a hook once the run has begun stepping is
\* rejected with an error and leaves epoch_num, local_step and global_step
\* unchanged.
C9_RestoreMidRunRejected ==
    (api.op = "load" /\ api.begun) =>
        /\ api.outcome = "Error"
        /\ api.after = api.before

\* the indices of the steps in the log
StepEntries == {i \in 1..Len(log) : log[i].hook = "before_step"}

\* the counters of the k-th step an uninterrupted run executes after the
\* point at which global_step was g
StepAfter(g, k) ==
    [epoch_num |-> ((g + k - 1) \div dataflow) + 1,
     local_step |-> ((g + k - 1) % dataflow) + 1,
     global_step |-> g + k]

\* ---------------------------------------------------------------------
\* C10: a snapshot (E, L, G) of a run over this dataflow, restored before
\* train is called or in before_train, makes the run resume from that point:
\* its steps are the steps an uninterrupted run executes after (E, L, G), with
\* the same counters, none skipped and none repeated.
C10_ResumeFromSnapshot ==
    (/\ restored.at \in {"idle", "before_train"}
     /\ has_callbacks
     /\ dataflow >= 1
     /\ restored.local_step <= dataflow
     /\ restored.global_step = (restored.epoch_num - 1) * dataflow + restored.local_step) =>
        /\ \A i \in StepEntries :
              LET k == Cardinality({j \in StepEntries : j <= i})
                  want == StepAfter(restored.global_step, k)
              IN  /\ log[i].epoch_num = want.epoch_num
                  /\ log[i].local_step = want.local_step
                  /\ log[i].global_step = want.global_step
        /\ (pc = "done" /\ raised.what = "none") =>
              Cardinality(StepEntries) =
                  IF num_epochs * dataflow > restored.global_step
                  THEN num_epochs * dataflow - restored.global_step
                  ELSE 0

\* ------------------------------------------------------------------ C11

\* the call of the sinks made last
LastSinkEvent == sink_log[Len(sink_log)]

\* C11: when Monitors.add_scalar(name, v) is called and the add_scalar handler of
\* one member of the group fails, every other member still receives (name, v),
\* the failure does not reach the caller, and the cache for name ends with exactly
\* one new entry, (current global_step, v).
C11_FanOutSurvivesFailure ==
    (sink_log # <<>> /\ LastSinkEvent.event = "add_scalar"
                    /\ LastSinkEvent.failed # "none") =>
        LET e == LastSinkEvent
        IN  /\ \A m \in SinkNames \ {e.failed} :
                  /\ Len(received[m]) = e.got[m] + 1
                  /\ received[m][Len(received[m])] = <<e.name, e.val>>
            /\ e.outcome = "ok"
            /\ e.name \in DOMAIN scalars
            /\ Len(scalars[e.name]) = e.cached + 1
            /\ scalars[e.name][Len(scalars[e.name])] = <<e.global_step, e.val>>

\* ------------------------------------------------------------------ C12

\* C12 (as stated): Monitor.add_image passes to _add_image an array of shape
\* (1,H,W,1) for a rank-2 input of shape (H,W), (1,H,W,3) for a rank-3 input of
\* shape (H,W,3), and (5,H,W,1) for a rank-3 input of shape (5,H,W), for all
\* H >= 1 and W >= 1; an input of any rank other than 2 or 3 fails and
\* _add_image is not called.
C12_ImageShapes ==
    (image_out.done /\ image_in.ndarray) =>
        LET sh == image_in.shape
        IN  /\ Len(sh) = 2 =>
                  image_out.called /\ image_out.shape = <<1, sh[1], sh[2], 1>>
            /\ (Len(sh) = 3 /\ sh[3] = 3) =>
                  image_out.called /\ image_out.shape = <<1, sh[1], sh[2], 3>>
            /\ (Len(sh) = 3 /\ sh[1] = 5) =>
                  image_out.called /\ image_out.shape = <<5, sh[2], sh[3], 1>>
            /\ Len(sh) \notin {2, 3} => ~image_out.called

\* C12 (amended): (1,H,W,1) for a rank-2 input (H,W); (1,H,W,3) for a rank-3
\* input (H,W,3); (5,H,W,1) for a rank-3 input (5,H,W) whose W is not 1, 3 or 4,
\* and (1,5,H,W) when W is 1, 3 or 4; a rank-4 input is passed to _add_image
\* unchanged; an input of any rank other than 2, 3 or 4 fails and _add_image is
\* not called.
C12_ImageShapesAmended ==
    (image_out.done /\ image_in.ndarray) =>
        LET sh == image_in.shape
        IN  /\ Len(sh) = 2 =>
                  image_out.called /\ image_out.shape = <<1, sh[1], sh[2], 1>>
            /\ (Len(sh) = 3 /\ sh[3] = 3) =>
                  image_out.called /\ image_out.shape = <<1, sh[1], sh[2], 3>>
            /\ (Len(sh) = 3 /\ sh[1] = 5 /\ sh[3] \notin {1, 3, 4}) =>
                  image_out.called /\ image_out.shape = <<5, sh[2], sh[3], 1>>
            /\ (Len(sh) = 3 /\ sh[1] = 5 /\ sh[3] \in {1, 3, 4}) =>
                  image_out.called /\ image_out.shape = <<1, 5, sh[2], sh[3]>>
            /\ Len(sh) = 4 => image_out.called /\ image_out.shape = sh
            /\ Len(sh) \notin {2, 3, 4} => ~image_out.called

\* a (5,H,W) input whose W is a channel count has been passed on as (1,5,H,W)
C12_Witness ==
    /\ image_out.done /\ image_out.called
    /\ image_in.shape = <<5, 2, 4>>
    /\ image_out.shape = <<1, 5, 2, 4>>

\* ------------------------------------------------------------------ C13

\* name has been passed to add_scalar before the last call of the sinks
Recorded(name) ==
    \E i \in 1..(Len(sink_log) - 1) :
        sink_log[i].event = "add_scalar" /\ sink_log[i].name = name

\* IsAdd(ev): ev is an add_scalar call
IsAdd(ev) == ev.event = "add_scalar"

\* the (global_step, value) pairs added under name, in the order added
AddedUnder(name) ==
    LET adds == SelectSeq(sink_log, IsAdd)
        RECURSIVE Pairs(_)
        Pairs(i) == IF i > Len(adds) THEN <<>>
                    ELSE (IF adds[i].name = name
                          THEN <<(<<adds[i].global_step, adds[i].val>>)>> ELSE <<>>)
                         \o Pairs(i + 1)
    IN  Pairs(1)

\* C13: Monitors.get_latest(name) and Monitors.get_history(name) both fail with an
\* error when name was never passed to add_scalar, and neither changes the cache;
\* for a recorded name get_history returns every (global_step, value) pair in the
\* order added and get_latest returns the last value.
C13_UnknownMetricFails ==
    (sink_log # <<>> /\ LastSinkEvent.event \in {"get_latest", "get_history"}) =>
        LET e == LastSinkEvent
        IN  IF Recorded(e.name)
            THEN /\ e.outcome = "ok"
                 /\ e.event = "get_history" => e.returned = AddedUnder(e.name)
                 /\ e.event = "get_latest" =>
                       e.returned = <<AddedUnder(e.name)[Len(AddedUnder(e.name))][2]>>
            ELSE /\ e.outcome = "Error"
                 /\ DOMAIN scalars = e.keys

\* ------------------------------------------------------------------ C14

\* this step is a call of JSONWriter._trigger
TriggerRuns ==
    /\ Len(sink_log') = Len(sink_log) + 1
    /\ sink_log'[Len(sink_log')].flushed

\* the last call of the sinks was a call of JSONWriter._trigger, so that no
\* add_scalar has come since
JustTriggered == sink_log # <<>> /\ LastSinkEvent.flushed

\* C14: JSONWriter._trigger is idempotent: after any sequence of add_scalar and
\* trigger calls, a call of _trigger that follows another with no add_scalar in
\* between leaves the in-memory history, the pending buffer and the persisted
\* stats file as they were after the first; and _trigger with an empty pending
\* buffer appends no record and does not touch the file.
C14_TriggerIdempotent ==
    [][(TriggerRuns /\ (JustTriggered \/ DOMAIN stat_now = {}))
          => UNCHANGED <<stats, stat_now, stats_json>>]_vars

\* _trigger has persisted a record and has then been called again
C14_Witness ==
    \E i \in 1..(Len(sink_log) - 1) :
        /\ sink_log[i].flushed /\ sink_log[i].wrote = "ok"
        /\ sink_log[i + 1].flushed
        /\ stats # <<>> /\ stats_json = File(stats)

\* ------------------------------------------------------------------ C15

\* C15: when JSONWriter.before_train finds a persisted history whose last record
\* has epoch E: if the trainer's starting epoch is E+1 (or the last epoch cannot
\* be determined) the in-memory history becomes the existing history and
\* stats.json is left in place; if it differs, the old content is kept under a
\* backup name, stats.json no longer holds it, and the history starts empty.
\* In both cases before_train completes without failure.
C15_ResumeOrBackup ==
    (sink_log # <<>> /\ LastSinkEvent.event = "before_train"
                    /\ LastSinkEvent.file.exists
                    /\ LastSinkEvent.file.content # <<>>) =>
        LET e == LastSinkEvent
            prior == e.file
            next == NextEpochOf(prior.content)
        IN  /\ e.outcome = "ok"
            /\ IF next = None \/ next = e.epoch_num + 1
               THEN stats = prior.content /\ stats_json = prior
               ELSE /\ prior.content \in backups
                    /\ stats_json # prior
                    /\ stats = <<>>

\* ------------------------------------------------------------------ C16

\* the add_scalar calls that reached JSONWriter.add_scalar
WriterAdds ==
    {i \in 1..Len(sink_log) : sink_log[i].event = "add_scalar" /\ sink_log[i].outcome = "ok"}

\* record r of the history holds the value of call i, or of a later call of the
\* same name made at the same step
HoldsAdd(r, i) ==
    /\ r["global_step"] = sink_log[i].global_step
    /\ r["epoch_num"] = sink_log[i].epoch_num
    /\ sink_log[i].name \in DOMAIN r
    /\ \E j \in WriterAdds :
          /\ j >= i
          /\ sink_log[j].name = sink_log[i].name
          /\ sink_log[j].global_step = sink_log[i].global_step
          /\ r[sink_log[i].name] = sink_log[j].val

\* C16: every scalar passed to JSONWriter.add_scalar during a run ends up in the
\* history in a record whose global_step (and epoch_num) is the trainer's at the
\* time of the add_scalar call: none is dropped, overwritten by a value added at
\* a different step, or stamped with a different step's global_step, also when
\* eval_interval skips trigger_epoch and at the end of the run.
C16_ScalarsGroupedByStep ==
    steps_per_epoch >= 1 =>
    /\ \A k \in 1..Len(stats) : \A n \in DOMAIN stats[k] \cap Names :
          \E i \in WriterAdds :
              /\ sink_log[i].name = n
              /\ sink_log[i].val = stats[k][n]
              /\ sink_log[i].global_step = stats[k]["global_step"]
              /\ sink_log[i].epoch_num = stats[k]["epoch_num"]
    /\ (pc = "done" /\ result = "returned") =>
          \A i \in WriterAdds : \E k \in 1..Len(stats) : HoldsAdd(stats[k], i)

\* ------------------------------------------------------------ C17, C18

\* the trigger_step hooks the Monitors group has handled
StepTriggers == {i \in 1..Len(sink_log) : sink_log[i].event = "trigger_step"}

\* event i happened in the last step of its epoch: the for loop has taken the
\* last batch of the dataflow; buffered and shown are the names the JSONWriter
\* and the ScalarPrinter held when the hook came
InLastStep(i) == log[sink_log[i].at].it = dataflow

\* C17: with steps_per_epoch >= 1, JSONWriter's trigger_step flushes the pending
\* buffer at every step that is not the last step of its epoch, and does not
\* flush at the last step of any epoch (that step's values are left for
\* trigger_epoch), so no step's values are flushed twice.
C17_WriterSkipsLastStep ==
    steps_per_epoch >= 1 =>
        \A i \in StepTriggers :
            sink_log[i].buffered # {} => (sink_log[i].flushed <=> ~InLastStep(i))

\* C18: a ScalarPrinter with trigger_step and trigger_epoch both enabled renders
\* and clears its buffer at trigger_step of every step except the last step of
\* each epoch, where it renders nothing and leaves the buffer for trigger_epoch;
\* with only trigger_step enabled it renders at every step including the last;
\* with only trigger_epoch enabled it renders only at trigger_epoch.
C18_PrinterSkipsLastStep ==
    steps_per_epoch >= 1 =>
        \A i \in {j \in 1..Len(sink_log) : sink_log[j].shown # {}} :
            LET e == sink_log[i]
            IN  /\ (e.event = "trigger_step" /\ enable_step /\ enable_epoch) =>
                      (e.rendered <=> ~InLastStep(i))
                /\ (e.event = "trigger_step" /\ enable_step /\ ~enable_epoch) =>
                      e.rendered
                /\ (e.event \in {"trigger_step", "trigger_epoch"}
                      /\ ~enable_step /\ enable_epoch /\ e.outcome = "ok") =>
                      (e.rendered <=> e.event = "trigger_epoch")

\* ------------------------------------------------------------------ C19

\* the calls and hooks in which a sink failed to persist: the JSONWriter could
\* not write stats.json, or the TFEventWriter could not write or flush
WriteFailures ==
    {i \in 1..Len(sink_log) :
        sink_log[i].wrote = "failed" \/ sink_log[i].failed = "TFEventWriter"}

\* C19: a persistence failure inside a concrete sink (JSONWriter writing
\* stats.json in _trigger, TFEventWriter writing a summary or flushing) is caught
\* inside that sink: it does not propagate to sibling monitors or the trainer,
\* and the run continues.
C19_SinkFailureIsLocal ==
    \A i \in WriteFailures :
        /\ sink_log[i].outcome = "ok"
        /\ ~(raised.what # "none" /\ raised.at = sink_log[i].at)

\* ------------------------------------------------------------------ C20

\* train has ended and nothing was raised, by a hook or by the trainer
Completed ==
    /\ pc = "done" /\ result = "returned"
    /\ raised.what = "none" /\ after_raised \subseteq {"ok"}

\* the hook entered when before_train returned (set_trainer and before_train
\* are the first two)
FirstAfterBeforeTrain == log[3]

\* epoch_num and global_step when before_train returned: the while loop adds one
\* to epoch_num before it enters before_epoch
EpochAtStart ==
    IF FirstAfterBeforeTrain.hook = "before_epoch"
    THEN FirstAfterBeforeTrain.epoch_num - 1
    ELSE FirstAfterBeforeTrain.epoch_num
StepAtStart == FirstAfterBeforeTrain.global_step

\* the epochs begun, and the steps begun in iteration w of the while loop
EpochEntries == {i \in 1..Len(log) : log[i].hook = "before_epoch"}
StepsOf(w) == {i \in 1..Len(log) : log[i].hook = "before_step" /\ log[i].ep = w}

\* a callback that restores a snapshot does so in before_train, or once the run
\* has begun stepping
RestoredInBeforeTrainOrLater ==
    api.op = "load" => (api.at = "before_train" \/ api.begun)

\* C20: with a finite dataflow of steps_per_epoch batches, a finite num_epochs and
\* no hook raising, Trainer.train terminates; with E the epoch_num when
\* before_train returns, it executes exactly the epochs E+1..num_epochs (none if
\* E >= num_epochs), each with exactly steps_per_epoch steps, then delivers
\* after_train, ending with epoch_num = max(E, num_epochs) and global_step
\* increased by (num_epochs - E) * steps_per_epoch when E < num_epochs.
C20_RunsRemainingEpochs ==
    (Completed /\ steps_per_epoch >= 1 /\ RestoredInBeforeTrainOrLater) =>
        LET E == EpochAtStart
        IN  /\ {log[i].epoch_num : i \in EpochEntries} = (E + 1)..num_epochs
            /\ Cardinality(EpochEntries) = (IF E < num_epochs THEN num_epochs - E ELSE 0)
            /\ \A i \in EpochEntries :
                  Cardinality(StepsOf(log[i].ep)) = steps_per_epoch
            /\ log[Len(log)].hook = "after_train"
            /\ epoch_num = (IF E < num_epochs THEN num_epochs ELSE E)
            /\ E < num_epochs =>
                  global_step = StepAtStart + (num_epochs - E) * steps_per_epoch

====
